---- MODULE Spec2Model ----
(***************************************************************************)
(* Model of the AudioPerduny Telegram bot (src/main.py): the ordered       *)
(* record store cached_audios_data, the per-user conversation state kept   *)
(* in context.user_data, and the handlers registered in run_server.        *)
(*                                                                         *)
(* Python values are modelled as follows.                                  *)
(*   - a dict is a function whose DOMAIN is the set of keys present;       *)
(*     dict.get / dict.pop with a default of None are Get / Pop below;     *)
(*   - a message text is a sequence of one-character strings, so that      *)
(*     str.strip() is computed and not assumed;                            *)
(*   - a list is a sequence; Python's 0-based indices are kept in the      *)
(*     names original_index / target_index and converted where a           *)
(*     sequence is indexed;                                                *)
(*   - every reply_text(...) is recorded in the variable reply as the      *)
(*     handler's outcome;                                                  *)
(*   - the messages the bot has sent into a chat and not deleted are kept  *)
(*     in chat_messages, with the id Telegram gives the next message;      *)
(*   - the first revision of the bot, src/Perduny_bot.py, is a process of  *)
(*     its own with its own file; its state is the variable legacy;        *)
(*   - a handler is a coroutine: it runs without interruption up to its    *)
(*     await, which is where Reply records the reply; tasks keeps, per     *)
(*     user, where the task that runs the handler stands.                  *)
(***************************************************************************)
EXTENDS Integers, Sequences, FiniteSets, TLC

\* ---------------------------------------------------------------- bounds
\* The code puts no limit on the store; the model stops appending at
\* MaxStore records in SpecSession and at MaxStoreAnyOrder records in Spec.
MaxStore == 3
MaxStoreAnyOrder == 1

\* The longest store a browsing or searching process starts with: three
\* pages, the last one with a single record.
MaxBrowseStore == 11

\* Telegram numbers the messages of a chat without end; the model stops
\* sending when the next id would pass MaxMessageId.
MaxMessageId == 25

\* Inline answers counted by the model.
MaxAnswers == 2

\* Calls of the Bot API that raise, per chat; the furthest item of a page,
\* or old message, whose call raises; and the last message id when calls
\* may raise.
MaxFailures == 1
MaxFaultAt == 2
MaxFaultyMessageId == 14

\* Ids uuid.uuid4() gives out in Perduny_bot.py.
MaxUuids == 3
MaxConcurrentStore == 2

\* ------------------------------------------------------ program constants
AUDIOS_PER_PAGE == 5

\* The length Perduny_bot.py cuts an inline answer to (results[:10]).
InlineCap == 10

\* ------------------------------------------------------- input alphabets
\* Telegram user ids that send updates.
Users == {1, 2}

\* The allow-lists the process may be configured with (main.py:41-46).
\* {} is the value when AUTHORIZED_USERS is not set.
AllowLists == {{1}}

\* The allow-lists of a process whose AUTHORIZED_USERS may also be unset.
AccessLists == { {}, {1} }

\* A private chat has the id of its user (update.effective_chat.id).
Chats == Users

\* Attachments a user can send: Telegram file_id and the message field
\* that carries it (update.message.voice / update.message.audio).
Attachments ==
    { [file_id |-> "h1", type |-> "voice"],
      [file_id |-> "h2", type |-> "audio"] }

FileIds == { a.file_id : a \in Attachments }

\* Free-text messages: a blank one, a clean one and a padded one.
Texts == { <<" ">>, <<"a">>, <<" ", "b", " ">> }

\* Decimal digits, and the literal a user types for an integer of at most
\* two digits.
DigitChars == << "0", "1", "2", "3", "4", "5", "6", "7", "8", "9" >>

Digits(n) ==
    IF n < 10 THEN << DigitChars[n + 1] >>
    ELSE << DigitChars[(n \div 10) + 1], DigitChars[(n % 10) + 1] >>

Literal(n) == IF n < 0 THEN <<"-">> \o Digits(0 - n) ELSE Digits(n)

\* Second argument of /move as typed by the user: integer literals from
\* below 1 to above the largest store, and a token int() rejects.
PositionTokens == { Literal(n) : n \in -1 .. MaxStore + 1 } \cup { <<"x">> }

\* context.args of /delete and /edit, and of /move.
IdArgs == {<<>>} \cup { <<h>> : h \in FileIds }
MoveArgs ==
    {<<>>} \cup { <<h>> : h \in FileIds }
           \cup { <<h, p>> : h \in FileIds, p \in PositionTokens }

None == "None"

\* Authors and names of the records a browsing or searching process starts
\* with: mixed case, and names where one is a prefix of another.
AuthorNames == << <<"A", "l">>, <<"b", "O", "b">>, <<"a", "n", "n">> >>

TrackName(i) == <<"T">> \o Literal(i)

\* The i-th record of such a store, added by user 1: odd ones are voices.
CatalogueRecord(i) ==
    [ name |-> TrackName(i),
      author |-> AuthorNames[((i - 1) % Len(AuthorNames)) + 1],
      file_id |-> IF i % 2 = 1 THEN "h1" ELSE "h2",
      type |-> IF i % 2 = 1 THEN "voice" ELSE "audio",
      telegram_user_id |-> 1 ]

Catalogue(n) == [ i \in 1 .. n |-> CatalogueRecord(i) ]

\* update.inline_query.query as typed: empty, in either case, part of a
\* name or of an author, a whole name, and one that matches nothing.
Queries ==
    { << >>, <<"t", "1">>, <<"T", "1", "0">>, <<"A">>, <<"b", "o", "B">>,
      <<"n", "n">>, <<"1", "1">>, <<"z">> }

VARIABLES
    AUTHORIZED_USERS,     \* main.py:42   the configured allow-list
    cached_audios_data,   \* main.py:49   the in-memory record store
    metadata_file,        \* main.py:34   content of AUDIO_METADATA_FILE
    user_data,            \* context.user_data, one dict per user
    reply,                \* the reply the last handler sent, and to whom
    saved,                \* whether the last handler called save_audio_metadata
    collected_before_add, \* history: per user, the user_data keys written
                          \* before that user's latest /add and not since
    volume,               \* condition of the file system that holds the files
    chat_data,            \* context.chat_data, one dict per chat
    chat_messages,        \* per chat: ids of the bot's messages still in the
                          \* chat, the id of the next message, and how many
                          \* calls of the Bot API have raised
    render,               \* what the last send_paginated_audios did
    answer,               \* the last update.inline_query.answer(...)
    legacy,               \* Perduny_bot.py: process, voice_db, DB_FILE
    tasks                 \* per user, the handler coroutine the Application
                          \* has created for an update of that user, and
                          \* where it stands

\* The variables no handler of the store or of a conversation assigns.
outside == << volume, chat_data, chat_messages, render, answer, legacy >>

vars == << AUTHORIZED_USERS, cached_audios_data, metadata_file, user_data,
           reply, saved, collected_before_add, outside, tasks >>

\* ------------------------------------------------------- Python helpers

\* dict.get(key) with the default None.
Get(d, k) == IF k \in DOMAIN d THEN d[k] ELSE None

\* d[key] = value.
Put(d, k, v) == [ x \in DOMAIN d \cup {k} |-> IF x = k THEN v ELSE d[x] ]

\* dict.pop(key, None) for each key of ks, the dict that is left.
PopAll(d, ks) == [ x \in DOMAIN d \ ks |-> d[x] ]

IsSpace(c) == c = " "

RECURSIVE LStrip(_)
LStrip(s) == IF s # <<>> /\ IsSpace(Head(s)) THEN LStrip(Tail(s)) ELSE s

RECURSIVE RStrip(_)
RStrip(s) ==
    IF s # <<>> /\ IsSpace(s[Len(s)])
    THEN RStrip(SubSeq(s, 1, Len(s) - 1))
    ELSE s

\* str.strip()
Strip(s) == RStrip(LStrip(s))

IsDigit(c) == \E i \in 1 .. Len(DigitChars) : DigitChars[i] = c

DigitValue(c) == (CHOOSE i \in 1 .. Len(DigitChars) : DigitChars[i] = c) - 1

\* Value of a sequence of digits, most significant first.
RECURSIVE Decimal(_)
Decimal(ds) ==
    IF ds = <<>> THEN 0
    ELSE 10 * Decimal(SubSeq(ds, 1, Len(ds) - 1)) + DigitValue(ds[Len(ds)])

Unsigned(tok) == IF tok # <<>> /\ tok[1] \in {"-", "+"} THEN Tail(tok) ELSE tok

\* int(token) raises ValueError unless the token is an optional sign
\* followed by digits.
IsIntLiteral(tok) ==
    /\ Unsigned(tok) # <<>>
    /\ \A i \in 1 .. Len(Unsigned(tok)) : IsDigit(Unsigned(tok)[i])

\* int(token) for a token that is an integer literal.
IntOf(tok) ==
    IF tok[1] = "-" THEN 0 - Decimal(Unsigned(tok)) ELSE Decimal(Unsigned(tok))

\* list.pop(i) on a non-empty list, the list that is left (a negative i
\* counts from the end).
ListPop(data, i) ==
    LET j == IF i < 0 THEN i + Len(data) ELSE i
    IN  SubSeq(data, 1, j) \o SubSeq(data, j + 2, Len(data))

\* list.insert(i, x): Python clamps i into [0, len] (a negative i counts
\* from the end first).
ListInsert(data, i, x) ==
    LET n == Len(data)
        j == IF i < 0 THEN (IF i + n < 0 THEN 0 ELSE i + n)
             ELSE IF i > n THEN n ELSE i
    IN  SubSeq(data, 1, j) \o <<x>> \o SubSeq(data, j + 1, n)

\* 0-based index of the first record whose file_id is id, -1 if none
\* (the search loops of move_audio_command and edit_audio_command).
RECURSIVE FirstIndexFrom(_, _, _)
FirstIndexFrom(data, id, i) ==
    IF i >= Len(data) THEN -1
    ELSE IF data[i + 1].file_id = id THEN i
    ELSE FirstIndexFrom(data, id, i + 1)

FirstIndex(data, id) == FirstIndexFrom(data, id, 0)

\* str.lower() on the letters of the alphabets above; every other
\* character is left as it is.
Uppercase == << "A", "B", "O", "T" >>
Lowercase == << "a", "b", "o", "t" >>

LowerChar(c) ==
    IF \E i \in 1 .. Len(Uppercase) : Uppercase[i] = c
    THEN Lowercase[CHOOSE i \in 1 .. Len(Uppercase) : Uppercase[i] = c]
    ELSE c

Lower(s) == [ i \in 1 .. Len(s) |-> LowerChar(s[i]) ]

\* `needle in hay` for two strings.
Contains(hay, needle) ==
    \E i \in 0 .. Len(hay) :
        /\ i + Len(needle) <= Len(hay)
        /\ SubSeq(hay, i + 1, i + Len(needle)) = needle

\* ------------------------------------------------------------ persistence

\* A file is absent, holds the JSON text of a list, or holds text that
\* json.load rejects (corrupt).
NoFile == [ exists |-> FALSE, corrupt |-> FALSE, data |-> <<>> ]

JsonFile(data) == [ exists |-> TRUE, corrupt |-> FALSE, data |-> data ]

CorruptFile == [ exists |-> TRUE, corrupt |-> TRUE, data |-> <<>> ]

\* What a file system does to open(path, "w") followed by json.dump:
\*   "ok"        both succeed;
\*   "readonly"  open raises, the file stays as it was;
\*   "full"      open truncates the file, the write raises and leaves
\*               text that is not JSON.
Volumes == { "ok", "readonly", "full" }

\* open(path, "w") and json.dump(data, f) on the file `file`: the file
\* afterwards, and whether an exception was raised.
WriteJson(file, data) ==
    CASE volume = "ok"       -> [ file |-> JsonFile(data), raised |-> FALSE ]
      [] volume = "readonly" -> [ file |-> file,           raised |-> TRUE ]
      [] volume = "full"     -> [ file |-> CorruptFile,    raised |-> TRUE ]

\* save_audio_metadata: json.dump of the whole list into the file; an
\* exception is logged and swallowed, so the caller sees no difference.
save_audio_metadata(data) == WriteJson(metadata_file, data).file

\* load_audio_metadata: the list in the file; [] when there is no file,
\* and [] when json.load raises.
load_audio_metadata(file) ==
    IF file.exists
    THEN IF file.corrupt THEN <<>> ELSE file.data
    ELSE <<>>

\* ------------------------------------------------------------ access guard

\* Mutant of Unauthorized: the allow-list test with its first operand
\* negated ("not AUTHORIZED_USERS and ..."), which denies nobody once a
\* list is configured.
Unauthorized_NegatedListTest(u) == AUTHORIZED_USERS = {} /\ u \notin AUTHORIZED_USERS

\* Mutant of Unauthorized: the membership test alone, without the test
\* that a list is configured.
Unauthorized_ListOnly(u) == u \notin AUTHORIZED_USERS

\* The test every gated handler starts with; TRUE means "deny".
Unauthorized(u) == AUTHORIZED_USERS # {} /\ u \notin AUTHORIZED_USERS

\* ------------------------------------------------------------------- Init

NoRender == [ outcome |-> "none" ]

NoAnswer == [ serial |-> 0 ]

\* No update of the user is being handled.
NoTask == [ at |-> "none" ]

\* The task exists and has not run yet.
Created == [ at |-> "created" ]

\* The task has run up to `await update.message.reply_text(...)`; what is
\* left of the handler after that call only writes to the log.
AwaitingReplyText == [ at |-> "reply_text" ]

\* Perduny_bot.py is not running.
LegacyAbsent == [ process |-> "absent" ]

\* The state run_server leaves once the handlers are registered, but for
\* the allow-list, the store and its file.
Registered ==
    /\ user_data = [ u \in Users |-> << >> ]
    /\ reply = [ user |-> 0, kind |-> "Startup" ]
    /\ saved = FALSE
    /\ collected_before_add = [ u \in Users |-> {} ]
    /\ chat_data = [ c \in Chats |-> << >> ]
    /\ chat_messages =
          [ c \in Chats |-> [ live |-> {}, next_id |-> 1, failures |-> 0 ] ]
    /\ render = NoRender
    /\ answer = NoAnswer
    /\ tasks = [ u \in Users |-> NoTask ]

\* The same with one of the allow-lists of AllowLists.
Started ==
    /\ AUTHORIZED_USERS \in AllowLists
    /\ Registered

\* A first start: no file yet, a sound file system.
Init ==
    /\ Started
    /\ volume = "ok"
    /\ legacy = LegacyAbsent
    /\ metadata_file = NoFile
    /\ cached_audios_data = load_audio_metadata(NoFile)

\* The handler of user u calls `await update.message.reply_text(...)`
\* (kind k), or returns without a reply (kind "NoReply").  When the handler
\* runs as a task, the task is suspended in that call, or has returned.
Reply(u, k) ==
    /\ reply' = [ user |-> u, kind |-> k ]
    /\ tasks' = IF tasks[u].at # "created" THEN tasks
                ELSE IF k = "NoReply" THEN [ tasks EXCEPT ![u] = NoTask ]
                ELSE [ tasks EXCEPT ![u] = AwaitingReplyText ]

\* A handler that returns after replying, touching nothing.
OnlyReply(u, k) ==
    /\ Reply(u, k)
    /\ saved' = FALSE
    /\ UNCHANGED << AUTHORIZED_USERS, outside, cached_audios_data, metadata_file,
                    user_data, collected_before_add >>

\* ----------------------------------------------------------------- /add

add_audio_command(u) ==
    IF Unauthorized(u)
    THEN OnlyReply(u, "Unauthorized")
    ELSE /\ user_data' =
              [ user_data EXCEPT ![u] = Put(@, "state", "awaiting_audio_for_add") ]
         /\ collected_before_add' =
              [ collected_before_add EXCEPT ![u] = DOMAIN user_data[u] \ {"state"} ]
         /\ Reply(u, "SendAudio")
         /\ saved' = FALSE
         /\ UNCHANGED << AUTHORIZED_USERS, outside, cached_audios_data, metadata_file >>

\* -------------------------------------------------------------- /delete

\* Mutant of KeepOthers: delete by index, list.pop(index_of(id)), where a
\* missing id gives index -1 and so removes the last record.
KeepOthers_PopByIndex(data, id) ==
    IF data = <<>> THEN data ELSE ListPop(data, FirstIndex(data, id))

\* The loop of delete_audio_command: every record whose file_id differs
\* from the given id is kept, in order.
KeepOthers(data, id) ==
    LET Keep(item) == item.file_id # id
    IN  SelectSeq(data, Keep)

\* found_and_deleted of that loop.
FoundMatch(data, id) == \E i \in 1 .. Len(data) : data[i].file_id = id

\* Mutant of delete_audio_command: save_audio_metadata() called before the
\* global is rebound to the filtered list, so the old list is written.
delete_audio_command_SaveFirst(u, args) ==
    IF Unauthorized(u)
    THEN OnlyReply(u, "Unauthorized")
    ELSE IF args = <<>>
    THEN OnlyReply(u, "DeleteUsage")
    ELSE LET audio_id_to_delete == args[1]
             new_cached_audios_data == KeepOthers(cached_audios_data, audio_id_to_delete)
             found_and_deleted == FoundMatch(cached_audios_data, audio_id_to_delete)
         IN  /\ cached_audios_data' = new_cached_audios_data
             /\ IF found_and_deleted
                THEN /\ metadata_file' = save_audio_metadata(cached_audios_data)
                     /\ saved' = TRUE
                     /\ Reply(u, "Deleted")
                ELSE /\ metadata_file' = metadata_file
                     /\ saved' = FALSE
                     /\ Reply(u, "DeleteNotFound")
             /\ UNCHANGED << AUTHORIZED_USERS, outside, user_data, collected_before_add >>

\* Mutant of delete_audio_command: an await between the loop that builds
\* new_cached_audios_data and the rebinding of the global, so that the
\* task is suspended holding a list filtered from the store as it was.
delete_audio_command_AwaitBeforeRebind(u, args) ==
    IF Unauthorized(u)
    THEN OnlyReply(u, "Unauthorized")
    ELSE IF args = <<>>
    THEN OnlyReply(u, "DeleteUsage")
    ELSE IF "new_cached_audios_data" \notin DOMAIN tasks[u]
    THEN LET audio_id_to_delete == args[1]
         IN  /\ tasks' = [ tasks EXCEPT ![u] =
                   [ at |-> "created",
                     audio_id_to_delete |-> audio_id_to_delete,
                     new_cached_audios_data |->
                         KeepOthers(cached_audios_data, audio_id_to_delete),
                     found_and_deleted |->
                         FoundMatch(cached_audios_data, audio_id_to_delete) ] ]
             /\ UNCHANGED << AUTHORIZED_USERS, outside, cached_audios_data,
                             metadata_file, user_data, collected_before_add,
                             reply, saved >>
    ELSE /\ args[1] = tasks[u].audio_id_to_delete
         /\ cached_audios_data' = tasks[u].new_cached_audios_data
         /\ IF tasks[u].found_and_deleted
            THEN /\ metadata_file' = save_audio_metadata(cached_audios_data')
                 /\ saved' = TRUE
                 /\ Reply(u, "Deleted")
            ELSE /\ metadata_file' = metadata_file
                 /\ saved' = FALSE
                 /\ Reply(u, "DeleteNotFound")
         /\ UNCHANGED << AUTHORIZED_USERS, outside, user_data, collected_before_add >>

delete_audio_command(u, args) ==
    IF Unauthorized(u)
    THEN OnlyReply(u, "Unauthorized")
    ELSE IF args = <<>>
    THEN OnlyReply(u, "DeleteUsage")
    ELSE LET audio_id_to_delete == args[1]
             new_cached_audios_data == KeepOthers(cached_audios_data, audio_id_to_delete)
             found_and_deleted == FoundMatch(cached_audios_data, audio_id_to_delete)
         IN  /\ cached_audios_data' = new_cached_audios_data
             /\ IF found_and_deleted
                THEN /\ metadata_file' = save_audio_metadata(new_cached_audios_data)
                     /\ saved' = TRUE
                     /\ Reply(u, "Deleted")
                ELSE /\ metadata_file' = metadata_file
                     /\ saved' = FALSE
                     /\ Reply(u, "DeleteNotFound")
             /\ UNCHANGED << AUTHORIZED_USERS, outside, user_data, collected_before_add >>

\* ---------------------------------------------------------------- /move

\* Mutant of PositionInRange: the range the comments of the code announce,
\* [0, len], "len(list) is a valid index for inserting at the very end".
PositionInRange_AllowEnd(target_index, n) == 0 <= target_index /\ target_index <= n

\* The range test on target_index (main.py:275-277); n is len(list).
PositionInRange(target_index, n) == 0 <= target_index /\ target_index <= n - 1

\* Mutant of PopThenInsert: the two records exchange places.
PopThenInsert_Swap(data, original_index, target_index) ==
    [ data EXCEPT ![original_index + 1] = data[target_index + 1],
                  ![target_index + 1] = data[original_index + 1] ]

\* Mutant of PopThenInsert: the insert without the pop, which leaves the
\* record at its old place as well.
PopThenInsert_NoPop(data, original_index, target_index) ==
    ListInsert(data, target_index, data[original_index + 1])

\* pop(original_index) followed by insert(target_index, audio_to_move).
PopThenInsert(data, original_index, target_index) ==
    ListInsert(ListPop(data, original_index), target_index,
               data[original_index + 1])

move_audio_command(u, args) ==
    IF Unauthorized(u)
    THEN OnlyReply(u, "Unauthorized")
    ELSE IF Len(args) # 2
    THEN OnlyReply(u, "MoveUsage")
    ELSE IF ~IsIntLiteral(args[2])
    THEN OnlyReply(u, "MoveBadNumber")
    ELSE IF cached_audios_data = <<>>
    THEN OnlyReply(u, "MoveEmptyList")
    ELSE LET audio_id_to_move == args[1]
             new_position == IntOf(args[2])
             original_index == FirstIndex(cached_audios_data, audio_id_to_move)
             target_index == new_position - 1
         IN  IF original_index = -1
             THEN OnlyReply(u, "MoveNotFound")
             ELSE IF ~PositionInRange(target_index, Len(cached_audios_data))
             THEN OnlyReply(u, "MoveBadPosition")
             ELSE /\ cached_audios_data' =
                       PopThenInsert(cached_audios_data, original_index, target_index)
                  /\ metadata_file' = save_audio_metadata(cached_audios_data')
                  /\ saved' = TRUE
                  /\ Reply(u, "Moved")
                  /\ UNCHANGED << AUTHORIZED_USERS, outside, user_data, collected_before_add >>

\* ---------------------------------------------------------------- /edit

edit_audio_command(u, args) ==
    IF Unauthorized(u)
    THEN OnlyReply(u, "Unauthorized")
    ELSE IF args = <<>>
    THEN OnlyReply(u, "EditUsage")
    ELSE LET audio_id_to_edit == args[1]
         IN  IF FirstIndex(cached_audios_data, audio_id_to_edit) = -1
             THEN OnlyReply(u, "EditNotFound")
             ELSE /\ user_data' =
                       [ user_data EXCEPT ![u] =
                           Put(Put(@, "state", "awaiting_new_author"),
                               "editing_audio_id", audio_id_to_edit) ]
                  /\ collected_before_add' =
                       [ collected_before_add EXCEPT ![u] = @ \ {"editing_audio_id"} ]
                  /\ Reply(u, "AskNewAuthor")
                  /\ saved' = FALSE
                  /\ UNCHANGED << AUTHORIZED_USERS, outside, cached_audios_data, metadata_file >>

\* ------------------------------------------------ voice / audio messages

\* att is the attachment of the message; the handler is registered for
\* filters.VOICE | filters.AUDIO, so one of message.voice / message.audio
\* is set and file_id is a non-empty string.
\* Mutant of handle_audio: the handler without its access test.
handle_audio_Ungated(u, att) ==
    IF Get(user_data[u], "state") # "awaiting_audio_for_add"
    THEN OnlyReply(u, "UseAddFirst")
    ELSE /\ user_data' =
              [ user_data EXCEPT ![u] =
                  Put(Put(Put(@, "pending_audio_file_id", att.file_id),
                          "pending_audio_file_type", att.type),
                      "state", "awaiting_author_name") ]
         /\ collected_before_add' =
              [ collected_before_add EXCEPT ![u] =
                  @ \ {"pending_audio_file_id", "pending_audio_file_type"} ]
         /\ Reply(u, "AskAuthor")
         /\ saved' = FALSE
         /\ UNCHANGED << AUTHORIZED_USERS, outside, cached_audios_data, metadata_file >>

handle_audio(u, att) ==
    IF Unauthorized(u)
    THEN OnlyReply(u, "UnauthorizedAudio")
    ELSE IF Get(user_data[u], "state") # "awaiting_audio_for_add"
    THEN OnlyReply(u, "UseAddFirst")
    ELSE /\ user_data' =
              [ user_data EXCEPT ![u] =
                  Put(Put(Put(@, "pending_audio_file_id", att.file_id),
                          "pending_audio_file_type", att.type),
                      "state", "awaiting_author_name") ]
         /\ collected_before_add' =
              [ collected_before_add EXCEPT ![u] =
                  @ \ {"pending_audio_file_id", "pending_audio_file_type"} ]
         /\ Reply(u, "AskAuthor")
         /\ saved' = FALSE
         /\ UNCHANGED << AUTHORIZED_USERS, outside, cached_audios_data, metadata_file >>

\* ----------------------------------------------------------- text messages

\* Python truth of dict.pop(key, None): the key is present and its value
\* is not the empty string.
TruthyId(d, k) == k \in DOMAIN d /\ d[k] # ""
TruthyText(d, k) == k \in DOMAIN d /\ d[k] # <<>>

\* Mutant of NewRecord: name and author exchanged.
NewRecord_Swapped(audio_name, author_name, file_id, file_type, u) ==
    [ name |-> author_name, author |-> audio_name, file_id |-> file_id,
      type |-> file_type, telegram_user_id |-> u ]

\* The dict literal appended to cached_audios_data (main.py:423-429).
NewRecord(audio_name, author_name, file_id, file_type, u) ==
    [ name |-> audio_name, author |-> author_name, file_id |-> file_id,
      type |-> file_type, telegram_user_id |-> u ]

\* The test guarding the append (main.py:419).
AddIsComplete(audio_name, d) ==
    /\ audio_name # <<>>
    /\ TruthyId(d, "pending_audio_file_id")
    /\ TruthyId(d, "pending_audio_file_type")
    /\ TruthyText(d, "temp_author_name")

\* The test guarding the update (main.py:465).
EditIsComplete(new_name, d) ==
    /\ new_name # <<>>
    /\ TruthyId(d, "editing_audio_id")
    /\ TruthyText(d, "temp_new_author")

\* Mutant of UpdateFirst: the edit done as remove-and-append, which moves
\* the record to the end of the list.
UpdateFirst_Reappend(data, id, new_author, new_name) ==
    LET i == FirstIndex(data, id)
    IN  IF i = -1 THEN data
        ELSE Append(ListPop(data, i),
                    [ data[i + 1] EXCEPT !.author = new_author, !.name = new_name ])

\* The update loop (main.py:468-473): the first record with the id gets
\* the new author and name; the list is unchanged when there is none.
UpdateFirst(data, id, new_author, new_name) ==
    LET i == FirstIndex(data, id)
    IN  IF i = -1 THEN data
        ELSE [ data EXCEPT ![i + 1] =
                 [ @ EXCEPT !.author = new_author, !.name = new_name ] ]

AddKeys == { "pending_audio_file_id", "pending_audio_file_type",
             "temp_author_name", "state" }
EditKeys == { "editing_audio_id", "temp_new_author", "state" }

\* user_data of u becomes d; the keys in written were assigned.
SetUserData(u, d, written) ==
    /\ user_data' = [ user_data EXCEPT ![u] = d ]
    /\ collected_before_add' =
         [ collected_before_add EXCEPT ![u] = (@ \ written) \cap DOMAIN d ]

\* Mutant of awaiting_author_name: the author kept with
\* user_data.setdefault("temp_author_name", ...), which leaves an author
\* collected by an earlier, abandoned flow in place.
awaiting_author_name_SetDefault(u, text) ==
    LET author_name == Strip(text)
        fresh == "temp_author_name" \notin DOMAIN user_data[u]
        d == IF fresh THEN Put(user_data[u], "temp_author_name", author_name)
             ELSE user_data[u]
    IN  IF author_name # <<>>
        THEN /\ SetUserData(u, Put(d, "state", "awaiting_audio_name"),
                            IF fresh THEN {"temp_author_name"} ELSE {})
             /\ Reply(u, "AskName")
             /\ saved' = FALSE
             /\ UNCHANGED << AUTHORIZED_USERS, outside, cached_audios_data, metadata_file >>
        ELSE OnlyReply(u, "AskAuthorAgain")

\* Mutant of awaiting_author_name: the text is tested before it is
\* stripped, so a text of blanks is accepted as an author.
awaiting_author_name_TestUnstripped(u, text) ==
    LET author_name == Strip(text)
    IN  IF text # <<>>
        THEN /\ SetUserData(u, Put(Put(user_data[u], "temp_author_name", author_name),
                                   "state", "awaiting_audio_name"),
                            {"temp_author_name"})
             /\ Reply(u, "AskName")
             /\ saved' = FALSE
             /\ UNCHANGED << AUTHORIZED_USERS, outside, cached_audios_data, metadata_file >>
        ELSE OnlyReply(u, "AskAuthorAgain")

awaiting_author_name(u, text) ==
    LET author_name == Strip(text)
    IN  IF author_name # <<>>
        THEN /\ SetUserData(u, Put(Put(user_data[u], "temp_author_name", author_name),
                                   "state", "awaiting_audio_name"),
                            {"temp_author_name"})
             /\ Reply(u, "AskName")
             /\ saved' = FALSE
             /\ UNCHANGED << AUTHORIZED_USERS, outside, cached_audios_data, metadata_file >>
        ELSE OnlyReply(u, "AskAuthorAgain")

awaiting_audio_name(u, text) ==
    LET audio_name == Strip(text)
        d == user_data[u]
    IN  /\ SetUserData(u, PopAll(d, AddKeys), {})
        /\ IF AddIsComplete(audio_name, d)
           THEN /\ cached_audios_data' =
                     Append(cached_audios_data,
                            NewRecord(audio_name, d["temp_author_name"],
                                      d["pending_audio_file_id"],
                                      d["pending_audio_file_type"], u))
                /\ metadata_file' = save_audio_metadata(cached_audios_data')
                /\ saved' = TRUE
                /\ Reply(u, "Saved")
           ELSE /\ Reply(u, "AddRetry")
                /\ saved' = FALSE
                /\ UNCHANGED << cached_audios_data, metadata_file >>
        /\ UNCHANGED << AUTHORIZED_USERS, outside >>

awaiting_new_author(u, text) ==
    LET new_author == Strip(text)
    IN  IF new_author # <<>>
        THEN /\ SetUserData(u, Put(Put(user_data[u], "temp_new_author", new_author),
                                   "state", "awaiting_new_name"),
                            {"temp_new_author"})
             /\ Reply(u, "AskNewName")
             /\ saved' = FALSE
             /\ UNCHANGED << AUTHORIZED_USERS, outside, cached_audios_data, metadata_file >>
        ELSE OnlyReply(u, "AskNewAuthorAgain")

\* Mutant of awaiting_new_name: the pop of "state" left out, so the user
\* stays at the step after what it needs has been popped.
awaiting_new_name_StateKept(u, text) ==
    LET new_name == Strip(text)
        d == user_data[u]
    IN  /\ SetUserData(u, PopAll(d, EditKeys \ {"state"}), {})
        /\ IF EditIsComplete(new_name, d)
           THEN LET audio_id_to_edit == d["editing_audio_id"]
                    found_and_updated == FoundMatch(cached_audios_data, audio_id_to_edit)
                IN  /\ cached_audios_data' =
                         UpdateFirst(cached_audios_data, audio_id_to_edit,
                                     d["temp_new_author"], new_name)
                    /\ IF found_and_updated
                       THEN /\ metadata_file' = save_audio_metadata(cached_audios_data')
                            /\ saved' = TRUE
                            /\ Reply(u, "Updated")
                       ELSE /\ metadata_file' = metadata_file
                            /\ saved' = FALSE
                            /\ Reply(u, "UpdateNotFound")
           ELSE /\ Reply(u, "EditRetry")
                /\ saved' = FALSE
                /\ UNCHANGED << cached_audios_data, metadata_file >>
        /\ UNCHANGED << AUTHORIZED_USERS, outside >>

awaiting_new_name(u, text) ==
    LET new_name == Strip(text)
        d == user_data[u]
    IN  /\ SetUserData(u, PopAll(d, EditKeys), {})
        /\ IF EditIsComplete(new_name, d)
           THEN LET audio_id_to_edit == d["editing_audio_id"]
                    found_and_updated == FoundMatch(cached_audios_data, audio_id_to_edit)
                IN  /\ cached_audios_data' =
                         UpdateFirst(cached_audios_data, audio_id_to_edit,
                                     d["temp_new_author"], new_name)
                    /\ IF found_and_updated
                       THEN /\ metadata_file' = save_audio_metadata(cached_audios_data')
                            /\ saved' = TRUE
                            /\ Reply(u, "Updated")
                       ELSE /\ metadata_file' = metadata_file
                            /\ saved' = FALSE
                            /\ Reply(u, "UpdateNotFound")
           ELSE /\ Reply(u, "EditRetry")
                /\ saved' = FALSE
                /\ UNCHANGED << cached_audios_data, metadata_file >>
        /\ UNCHANGED << AUTHORIZED_USERS, outside >>

\* handle_text_input: the branch is chosen by user_data.get("state").
handle_text_input(u, text) ==
    LET current_state == Get(user_data[u], "state")
    IN  CASE current_state = "awaiting_author_name" -> awaiting_author_name(u, text)
          [] current_state = "awaiting_audio_name"  -> awaiting_audio_name(u, text)
          [] current_state = "awaiting_new_author"  -> awaiting_new_author(u, text)
          [] current_state = "awaiting_new_name"    -> awaiting_new_name(u, text)
          [] OTHER -> OnlyReply(u, "NoReply")

\* ------------------------------------------------------------- /cancel

\* A /cancel message is a command: filters.COMMAND keeps it away from
\* handle_text_input, and run_server registers no CommandHandler for it,
\* so no handler runs.
cancel_command(u) == OnlyReply(u, "NoHandler")

\* --------------------------------------------------------- inline query

\* Mutant of Matches: the operands of `in` exchanged, so that a record is
\* kept when its field occurs in the query.
Matches_OperandsSwapped(item, query) ==
    \/ Contains(query, Lower(item.name))
    \/ Contains(query, Lower(item.author))
    \/ query = << >>

\* The condition of the list comprehension that builds filtered_audios.
Matches(item, query) ==
    \/ Contains(Lower(item.name), query)
    \/ Contains(Lower(item.author), query)
    \/ query = << >>

\* display_title = f"{author_name} - {audio_name}"
DisplayTitle(item) == item.author \o <<" ", "-", " ">> \o item.name

\* The InlineQueryResultCachedVoice / InlineQueryResultCachedAudio built for
\* each filtered item; an item of any other type is passed over.
RECURSIVE InlineResults(_)
InlineResults(items) ==
    IF items = << >> THEN << >>
    ELSE LET item == Head(items)
             made == IF item.type \in {"voice", "audio"}
                     THEN << [ result |-> item.type,
                               file_id |-> item.file_id,
                               title |-> DisplayTitle(item) ] >>
                     ELSE << >>
         IN  made \o InlineResults(Tail(items))

\* inline_query: no access test.  answer records the query as typed, the
\* list it was answered from, filtered_audios, and the results handed to
\* update.inline_query.answer; serial counts the answers.
inline_query(u, typed) ==
    LET query == Lower(typed)
        filtered_audios ==
            SelectSeq(cached_audios_data, LAMBDA item : Matches(item, query))
    IN  /\ answer' = [ serial |-> answer.serial + 1,
                       user |-> u,
                       query |-> typed,
                       store |-> cached_audios_data,
                       filtered |-> filtered_audios,
                       results |-> InlineResults(filtered_audios) ]
        /\ Reply(u, "NoReply")
        /\ saved' = FALSE
        /\ UNCHANGED << AUTHORIZED_USERS, cached_audios_data, metadata_file,
                        user_data, collected_before_add,
                        volume, chat_data, chat_messages, render, legacy >>

\* ---------------------------------------------------------------- /voices

Max(a, b) == IF a >= b THEN a ELSE b

Min(a, b) == IF a <= b THEN a ELSE b

\* data[start:stop] for a list: a negative bound counts from the end, and
\* both are clamped into the list.
Slice(data, start, stop) ==
    LET n == Len(data)
        lo == IF start < 0 THEN Max(start + n, 0) ELSE Min(start, n)
        hi == IF stop < 0 THEN Max(stop + n, 0) ELSE Min(stop, n)
    IN  SubSeq(data, lo + 1, hi)

\* total_pages: the ceiling division of main.py:627-629.
TotalPages(total_audios) ==
    (total_audios + AUDIOS_PER_PAGE - 1) \div AUDIOS_PER_PAGE

\* Mutant of AdjustPage: only the upper end is clamped.
AdjustPage_UpperOnly(page, total_pages) ==
    IF 0 <= page /\ page < total_pages
    THEN page
    ELSE Min(page, total_pages - 1)

\* The page shown for a requested page when total_pages > 0
\* (main.py:632-634).
AdjustPage(page, total_pages) ==
    IF 0 <= page /\ page < total_pages
    THEN page
    ELSE Max(0, Min(page, total_pages - 1))

\* Mutant of AudiosToSend: the slice taken one short
\* (end_index - 1 as the stop).
AudiosToSend_OneShort(data, page) ==
    LET start_index == page * AUDIOS_PER_PAGE
        end_index == Min(start_index + AUDIOS_PER_PAGE, Len(data))
    IN  Slice(data, start_index, end_index - 1)

\* audios_to_send for the page shown (main.py:642-645).
AudiosToSend(data, page) ==
    LET start_index == page * AUDIOS_PER_PAGE
        end_index == Min(start_index + AUDIOS_PER_PAGE, Len(data))
    IN  Slice(data, start_index, end_index)

\* callback_data = f"voices_page_{n}", as characters.
VoicesPagePrefix ==
    << "v", "o", "i", "c", "e", "s", "_", "p", "a", "g", "e", "_" >>

CallbackData(n) == VoicesPagePrefix \o Literal(n)

\* str.startswith(prefix)
StartsWith(s, prefix) ==
    /\ Len(prefix) <= Len(s)
    /\ SubSeq(s, 1, Len(prefix)) = prefix

\* str.split(sep) for a one-character separator.
RECURSIVE Split(_, _)
Split(s, sep) ==
    IF \A i \in 1 .. Len(s) : s[i] # sep
    THEN << s >>
    ELSE LET i == CHOOSE k \in 1 .. Len(s) :
                      /\ s[k] = sep
                      /\ \A j \in 1 .. k - 1 : s[j] # sep
         IN  << SubSeq(s, 1, i - 1) >> \o Split(SubSeq(s, i + 1, Len(s)), sep)

\* Mutant of Keyboard: the "next" button offered up to and including the
\* last page (page < total_pages instead of page < total_pages - 1).
Keyboard_NextOnLast(page, total_pages) ==
    (IF page > 0
     THEN << [ button |-> "previous", callback_data |-> CallbackData(page - 1) ] >>
     ELSE << >>)
    \o
    (IF page < total_pages
     THEN << [ button |-> "next", callback_data |-> CallbackData(page + 1) ] >>
     ELSE << >>)

\* The row of buttons under a page (main.py:676-687).
Keyboard(page, total_pages) ==
    (IF page > 0
     THEN << [ button |-> "previous", callback_data |-> CallbackData(page - 1) ] >>
     ELSE << >>)
    \o
    (IF page < total_pages - 1
     THEN << [ button |-> "next", callback_data |-> CallbackData(page + 1) ] >>
     ELSE << >>)

\* One call of the Bot API that raises during a render: none; the
\* delete_message of the old pagination message (delete, 0) or of the k-th
\* old audio message (delete, k); the send_message of the i-th item's text
\* (text, i); the send_voice / send_audio of the i-th item (media, i).
NoFault == [ op |-> "none", at |-> 0 ]

Faults ==
    { NoFault }
    \cup { [ op |-> "delete", at |-> k ] : k \in 0 .. MaxFaultAt }
    \cup { [ op |-> o, at |-> i ] : o \in {"text", "media"}, i \in 1 .. MaxFaultAt }

\* The loop over audios_to_send from the i-th item on (main.py:650-673),
\* the next message getting the id `id`: the messages sent, in order, and
\* whether an exception ended the loop.  send_message of the text is
\* outside the try; a failed send_voice / send_audio is caught and
\* answered with an error message, whose id is kept like that of the
\* audio message.
RECURSIVE SendItems(_, _, _, _)
SendItems(items, i, id, fault) ==
    IF i > Len(items) THEN [ sent |-> << >>, raised |-> FALSE ]
    ELSE IF fault = [ op |-> "text", at |-> i ]
    THEN [ sent |-> << >>, raised |-> TRUE ]
    ELSE LET text_msg == [ message_id |-> id, kind |-> "text", item |-> i ]
             audio_msg ==
                 [ message_id |-> id + 1,
                   kind |-> IF fault = [ op |-> "media", at |-> i ]
                            THEN "error" ELSE items[i].type,
                   item |-> i ]
             rest == SendItems(items, i + 1, id + 2, fault)
         IN  [ sent |-> << text_msg, audio_msg >> \o rest.sent,
               raised |-> rest.raised ]

MessageIds(msgs) == { msgs[k].message_id : k \in 1 .. Len(msgs) }

\* send_paginated_audios(chat_id, context, page): the whole handler.  The
\* command message it deletes first is the user's and is not among the
\* bot's messages kept in chat_messages.
send_paginated_audios(c, page, fault) ==
    LET d == chat_data[c]
        has_pagination ==
            /\ "last_pagination_message_id" \in DOMAIN d
            /\ d["last_pagination_message_id"] # 0
        has_audio ==
            /\ "last_audio_message_ids" \in DOMAIN d
            /\ d["last_audio_message_ids"] # << >>
        popped ==
            PopAll(d, (IF has_pagination THEN {"last_pagination_message_id"} ELSE {})
                      \cup (IF has_audio THEN {"last_audio_message_ids"} ELSE {}))
        old_audio == IF has_audio THEN d["last_audio_message_ids"] ELSE << >>
        deleted ==
            (IF has_pagination /\ fault # [ op |-> "delete", at |-> 0 ]
             THEN { d["last_pagination_message_id"] } ELSE {})
            \cup { old_audio[k] : k \in { j \in 1 .. Len(old_audio) :
                                              fault # [ op |-> "delete", at |-> j ] } }
        left == chat_messages[c].live \ deleted
        id == chat_messages[c].next_id
        total_audios == Len(cached_audios_data)
        total_pages == TotalPages(total_audios)
        in_range == 0 <= page /\ page < total_pages
        shown == IF in_range THEN page ELSE AdjustPage(page, total_pages)
        audios_to_send == AudiosToSend(cached_audios_data, shown)
        loop == SendItems(audios_to_send, 1, id, fault)
        new_pagination_message ==
            [ message_id |-> id + Len(loop.sent), kind |-> "pagination", item |-> 0 ]
        hit ==
            \/ fault.op = "delete" /\ fault.at = 0 /\ has_pagination
            \/ fault.op = "delete" /\ fault.at \in 1 .. Len(old_audio)
            \/ /\ fault.op \in {"text", "media"}
               /\ cached_audios_data # << >>
               /\ fault.at \in 1 .. Len(audios_to_send)
        Done(outcome, data, sent, more) ==
            /\ chat_data' = [ chat_data EXCEPT ![c] = data ]
            /\ chat_messages' =
                  [ chat_messages EXCEPT ![c] =
                      [ live |-> left \cup MessageIds(sent),
                        next_id |-> id + Len(sent),
                        failures |-> @.failures + (IF hit THEN 1 ELSE 0) ] ]
            /\ render' = [ outcome |-> outcome, chat |-> c, requested |-> page,
                           fault |-> fault, hit |-> hit, retracted |-> deleted,
                           sent |-> sent ] @@ more
    IN  /\ IF cached_audios_data = << >> \/ (~in_range /\ total_pages <= 0)
           THEN Done("empty", popped,
                     << [ message_id |-> id, kind |-> "nothing", item |-> 0 ] >>,
                     << >>)
           ELSE IF loop.raised
           THEN Done("raised", popped, loop.sent, << >>)
           ELSE Done("page",
                     Put(Put(popped, "last_pagination_message_id",
                                     new_pagination_message.message_id),
                         "last_audio_message_ids",
                         [ k \in 1 .. Len(loop.sent) |-> loop.sent[k].message_id ]),
                     loop.sent \o << new_pagination_message >>,
                     [ page |-> shown,
                       total_pages |-> total_pages,
                       audios |-> audios_to_send,
                       keyboard |-> Keyboard(shown, total_pages) ])
        /\ Reply(c, "NoReply")
        /\ saved' = FALSE
        /\ UNCHANGED << AUTHORIZED_USERS, cached_audios_data, metadata_file,
                        user_data, collected_before_add, volume, answer, legacy >>

\* voices_command: the first page, in the chat of the sender.
voices_command(u, fault) == send_paginated_audios(u, 0, fault)

\* Callback data a client can send back: that of the buttons of any page
\* of a store of MaxBrowseStore records or of the page after the last, of
\* a page below the first, and one whose third field is not a number.
CallbackInputs ==
    { CallbackData(n) : n \in -1 .. TotalPages(MaxBrowseStore) }
    \cup { VoicesPagePrefix \o <<"x">> }

\* pagination_callback_handler: registered for data that starts with
\* voices_page_; int() of the third field, ValueError answered with a
\* notice.
pagination_callback_handler(u, callback_data, fault) ==
    IF StartsWith(callback_data, VoicesPagePrefix)
    THEN LET field == Split(callback_data, "_")[3]
         IN  IF IsIntLiteral(field)
             THEN send_paginated_audios(u, IntOf(field), fault)
             ELSE OnlyReply(u, "NavigationError")
    ELSE OnlyReply(u, "NoReply")

\* --------------------------------------------------------------- dispatch

\* The users of the allow-list, and whether a conversation of theirs is
\* open (user_data has a "state").
Listed(u) == u \in AUTHORIZED_USERS

InConversation(u) == "state" \in DOMAIN user_data[u]

Between(u) == Listed(u) /\ ~InConversation(u)

Engaged(u) == Listed(u) /\ InConversation(u)

\* Spec: the listed users send every update a handler of run_server is
\* registered for, and /cancel, in any order.  Conversations are started,
\* abandoned and restarted at will, which leaves all kinds of leftovers in
\* user_data; the store is kept short.
Next ==
    \E u \in Users :
        \/ Listed(u) /\ add_audio_command(u)
        \/ Listed(u) /\ \E args \in IdArgs : delete_audio_command(u, args)
        \/ Listed(u) /\ \E args \in MoveArgs : move_audio_command(u, args)
        \/ Listed(u) /\ \E args \in IdArgs : edit_audio_command(u, args)
        \/ Listed(u) /\ \E att \in Attachments : handle_audio(u, att)
        \/ Listed(u) /\ \E text \in Texts :
              /\ handle_text_input(u, text)
              /\ Len(cached_audios_data') <= MaxStoreAnyOrder
        \/ Listed(u) /\ cancel_command(u)

\* SpecSession: the same handlers driven by listed users who let a
\* conversation run to its end before starting another one: while a
\* conversation is open the user sends only attachments, texts and
\* /delete commands.  No handler of the store operations reads user_data,
\* so this leaves their behaviour whole and makes room for a longer store.
NextSession ==
    \E u \in Users :
        \/ Between(u) /\ add_audio_command(u)
        \/ Listed(u) /\ \E args \in IdArgs : delete_audio_command(u, args)
        \/ Between(u) /\ \E args \in MoveArgs : move_audio_command(u, args)
        \/ Between(u) /\ \E args \in IdArgs : edit_audio_command(u, args)
        \/ Engaged(u) /\ \E att \in Attachments : handle_audio(u, att)
        \/ Engaged(u) /\ \E text \in Texts :
              /\ handle_text_input(u, text)
              /\ Len(cached_audios_data') <= MaxStore

\* SpecGuard: the sessions of SpecSession on a short store, with the users
\* who are not on the allow-list sending every kind of update at any time.
NextGuard ==
    \E u \in Users :
        \/ ~Listed(u) /\ add_audio_command(u)
        \/ ~Listed(u) /\ \E args \in IdArgs : delete_audio_command(u, args)
        \/ ~Listed(u) /\ \E args \in MoveArgs : move_audio_command(u, args)
        \/ ~Listed(u) /\ \E args \in IdArgs : edit_audio_command(u, args)
        \/ ~Listed(u) /\ \E att \in Attachments : handle_audio(u, att)
        \/ ~Listed(u) /\ \E text \in Texts : handle_text_input(u, text)
        \/ ~Listed(u) /\ cancel_command(u)
        \/ Between(u) /\ add_audio_command(u)
        \/ Listed(u) /\ \E args \in IdArgs : delete_audio_command(u, args)
        \/ Between(u) /\ \E args \in IdArgs : edit_audio_command(u, args)
        \/ Engaged(u) /\ \E att \in Attachments : handle_audio(u, att)
        \/ Engaged(u) /\ \E text \in Texts :
              /\ handle_text_input(u, text)
              /\ Len(cached_audios_data') <= MaxStoreAnyOrder

\* A first start with AUTHORIZED_USERS set or unset.
InitAccess ==
    /\ AUTHORIZED_USERS \in AccessLists
    /\ Registered
    /\ volume = "ok"
    /\ legacy = LegacyAbsent
    /\ metadata_file = NoFile
    /\ cached_audios_data = load_audio_metadata(NoFile)

\* The users the configuration admits: all of them when no list is set.
Admitted(u) == AUTHORIZED_USERS = {} \/ Listed(u)

\* SpecAccess: SpecGuard for either configuration: the users the
\* configuration keeps out send every kind of update at any time, the
\* others hold orderly conversations on a short store.
NextAccess ==
    \E u \in Users :
        \/ ~Admitted(u) /\ add_audio_command(u)
        \/ ~Admitted(u) /\ \E args \in IdArgs : delete_audio_command(u, args)
        \/ ~Admitted(u) /\ \E args \in MoveArgs : move_audio_command(u, args)
        \/ ~Admitted(u) /\ \E args \in IdArgs : edit_audio_command(u, args)
        \/ ~Admitted(u) /\ \E att \in Attachments : handle_audio(u, att)
        \/ ~Admitted(u) /\ \E text \in Texts : handle_text_input(u, text)
        \/ Admitted(u) /\ ~InConversation(u) /\ add_audio_command(u)
        \/ Admitted(u) /\ \E args \in IdArgs : delete_audio_command(u, args)
        \/ Admitted(u) /\ ~InConversation(u)
              /\ \E args \in MoveArgs : move_audio_command(u, args)
        \/ Admitted(u) /\ ~InConversation(u)
              /\ \E args \in IdArgs : edit_audio_command(u, args)
        \/ Admitted(u) /\ \E att \in Attachments : handle_audio(u, att)
        \/ Admitted(u) /\ InConversation(u) /\ \E text \in Texts :
              /\ handle_text_input(u, text)
              /\ Len(cached_audios_data') <= MaxStoreAnyOrder

\* A start on a file that holds the first n catalogue records.
InitBrowse ==
    /\ Started
    /\ volume = "ok"
    /\ legacy = LegacyAbsent
    /\ \E n \in 0 .. MaxBrowseStore : metadata_file = JsonFile(Catalogue(n))
    /\ cached_audios_data = load_audio_metadata(metadata_file)

\* SpecQuery: any user searches inline while the listed users delete
\* records.
NextQuery ==
    \E u \in Users :
        \/ \E typed \in Queries :
              /\ inline_query(u, typed)
              /\ answer'.serial <= MaxAnswers
        \/ Listed(u) /\ \E args \in IdArgs : delete_audio_command(u, args)

\* The file system changes its condition.
volume_changes(v) ==
    /\ v # volume
    /\ volume' = v
    /\ UNCHANGED << AUTHORIZED_USERS, cached_audios_data, metadata_file,
                    user_data, reply, saved, collected_before_add, tasks,
                    chat_data, chat_messages, render, answer, legacy >>

\* The process is started again: user_data and chat_data are kept in
\* memory only (no persistence is configured), the store is loaded from
\* the file; the messages in the chats stay.
run_server ==
    /\ cached_audios_data' = load_audio_metadata(metadata_file)
    /\ user_data' = [ u \in Users |-> << >> ]
    /\ chat_data' = [ c \in Chats |-> << >> ]
    /\ collected_before_add' = [ u \in Users |-> {} ]
    /\ reply' = [ user |-> 0, kind |-> "Startup" ]
    /\ saved' = FALSE
    /\ tasks' = [ u \in Users |-> NoTask ]
    /\ UNCHANGED << AUTHORIZED_USERS, metadata_file, volume, chat_messages,
                    render, answer, legacy >>

\* A start on any file system, where the file is absent, corrupt, or
\* holds one record.
InitFaulty ==
    /\ Started
    /\ volume \in Volumes
    /\ legacy = LegacyAbsent
    /\ metadata_file \in { NoFile, CorruptFile, JsonFile(Catalogue(1)) }
    /\ cached_audios_data = load_audio_metadata(metadata_file)

\* SpecFaulty: the sessions of SpecSession on a short store, while the
\* file system changes its condition and the process is restarted.
NextFaulty ==
    \/ \E v \in Volumes : volume_changes(v)
    \/ run_server
    \/ \E u \in Users :
        \/ Between(u) /\ add_audio_command(u)
        \/ Listed(u) /\ \E args \in IdArgs : delete_audio_command(u, args)
        \/ Between(u) /\ \E args \in MoveArgs : move_audio_command(u, args)
        \/ Between(u) /\ \E args \in IdArgs : edit_audio_command(u, args)
        \/ Engaged(u) /\ \E att \in Attachments : handle_audio(u, att)
        \/ Engaged(u) /\ \E text \in Texts :
              /\ handle_text_input(u, text)
              /\ Len(cached_audios_data') <= MaxStoreAnyOrder

\* ---------------------------------------------------------- Perduny_bot.py

\* `python Perduny_bot.py` is typed: the module is about to be executed.
\* uuids counts the ids uuid.uuid4() has given out.
LegacyStarting(file, uuids) ==
    [ process |-> "starting", voice_db |-> << >>, db_file |-> file,
      user_data |-> [ u \in Users |-> << >> ], uuids |-> uuids ]

\* Lines 23-27, executed at import: json.load of an existing file is not
\* guarded, so a file that is not JSON ends the process with the
\* exception; an absent file gives the empty list.
module_level_load ==
    /\ legacy.process = "starting"
    /\ legacy' =
          IF legacy.db_file.exists
          THEN IF legacy.db_file.corrupt
               THEN [ legacy EXCEPT !.process = "terminated" ]
               ELSE [ legacy EXCEPT !.process = "running",
                                    !.voice_db = legacy.db_file.data ]
          ELSE [ legacy EXCEPT !.process = "running", !.voice_db = << >> ]
    /\ UNCHANGED << AUTHORIZED_USERS, cached_audios_data, metadata_file,
                    user_data, reply, saved, collected_before_add, tasks, volume,
                    chat_data, chat_messages, render, answer >>

\* handle_voice: registered for filters.VOICE.
handle_voice(u, voice) ==
    /\ legacy.process = "running"
    /\ legacy' = [ legacy EXCEPT !.user_data[u] =
                     Put(@, "pending_voice", [ file_id |-> voice.file_id ]) ]
    /\ Reply(u, "VoiceReceived")
    /\ saved' = FALSE
    /\ UNCHANGED << AUTHORIZED_USERS, cached_audios_data, metadata_file,
                    user_data, collected_before_add, volume,
                    chat_data, chat_messages, render, answer >>

\* handle_caption: the entry is appended, then save_db() writes the file
\* with no try around open / json.dump: an exception leaves the handler
\* before the reply and is logged by the Application, which goes on.
handle_caption(u, text) ==
    /\ legacy.process = "running"
    /\ IF "pending_voice" \notin DOMAIN legacy.user_data[u]
       THEN /\ Reply(u, "NoReply")
            /\ saved' = FALSE
            /\ UNCHANGED legacy
       ELSE LET voice_info == legacy.user_data[u]["pending_voice"]
                voice_entry == [ id |-> legacy.uuids + 1,
                                 file_id |-> voice_info.file_id,
                                 caption |-> Strip(text) ]
                voice_db == Append(legacy.voice_db, voice_entry)
                save_db == WriteJson(legacy.db_file, voice_db)
            IN  /\ legacy' =
                      [ legacy EXCEPT !.user_data[u] = PopAll(@, {"pending_voice"}),
                                      !.voice_db = voice_db,
                                      !.db_file = save_db.file,
                                      !.uuids = @ + 1 ]
                /\ Reply(u, IF save_db.raised THEN "NoReply" ELSE "SavedVoice")
                /\ saved' = FALSE
    /\ UNCHANGED << AUTHORIZED_USERS, cached_audios_data, metadata_file,
                    user_data, collected_before_add, volume,
                    chat_data, chat_messages, render, answer >>

\* The process is stopped, if it still runs, and started again.
legacy_restart ==
    /\ legacy.process \in { "running", "terminated" }
    /\ legacy' = LegacyStarting(legacy.db_file, legacy.uuids)
    /\ UNCHANGED << AUTHORIZED_USERS, cached_audios_data, metadata_file,
                    user_data, reply, saved, collected_before_add, tasks, volume,
                    chat_data, chat_messages, render, answer >>

\* Both programs are started, each on its own file, absent, corrupt or
\* holding one record.
InitLegacy ==
    /\ Started
    /\ volume \in Volumes
    /\ metadata_file \in { NoFile, CorruptFile, JsonFile(Catalogue(1)) }
    /\ cached_audios_data = load_audio_metadata(metadata_file)
    /\ \E file \in { NoFile, CorruptFile,
                      JsonFile(<< [ id |-> 1, file_id |-> "h1",
                                    caption |-> <<"a">> ] >>) } :
          legacy = LegacyStarting(file, 1)

\* SpecLegacy: Perduny_bot.py is started, receives voices and captions
\* and is restarted, main.py is restarted, and the file system changes
\* its condition.
NextLegacy ==
    \/ module_level_load
    \/ legacy_restart
    \/ run_server
    \/ \E v \in Volumes : volume_changes(v)
    \/ \E u \in Users :
        \/ \E voice \in { a \in Attachments : a.type = "voice" } : handle_voice(u, voice)
        \/ \E text \in Texts :
              /\ handle_caption(u, text)
              /\ legacy'.uuids <= MaxUuids

\* The model sends no message whose id is above MaxMessageId.
WithinMessageIds(c) == chat_messages'[c].next_id <= MaxMessageId + 1

\* SpecBrowse: the listed users browse and turn pages, with any callback
\* data, and delete records; every call of the Bot API succeeds.
NextBrowse ==
    \E u \in Users :
        \/ Listed(u) /\ voices_command(u, NoFault) /\ WithinMessageIds(u)
        \/ Listed(u) /\ \E callback_data \in CallbackInputs :
              /\ pagination_callback_handler(u, callback_data, NoFault)
              /\ WithinMessageIds(u)
        \/ Listed(u) /\ \E args \in IdArgs : delete_audio_command(u, args)

\* A fault is offered only to a render that makes the call it names, and
\* as long as the chat has seen fewer than MaxFailures.
Offered(c, fault) ==
    \/ fault = NoFault
    \/ /\ chat_messages[c].failures < MaxFailures
       /\ chat_messages'[c].failures > chat_messages[c].failures

\* SpecTransport: SpecBrowse where one call of the Bot API may raise
\* during a render.
NextTransport ==
    \E u \in Users :
        \/ Listed(u) /\ \E fault \in Faults :
              /\ voices_command(u, fault)
              /\ Offered(u, fault)
              /\ chat_messages'[u].next_id <= MaxFaultyMessageId + 1
        \/ Listed(u) /\ \E callback_data \in CallbackInputs, fault \in Faults :
              /\ pagination_callback_handler(u, callback_data, fault)
              /\ Offered(u, fault)
              /\ chat_messages'[u].next_id <= MaxFaultyMessageId + 1
        \/ Listed(u) /\ \E args \in IdArgs : delete_audio_command(u, args)

\* SpecConcurrent: both users are on the allow-list and the Application
\* handles their updates concurrently, one task per user at a time.  A
\* task runs from its creation to the await of its handler without being
\* interrupted (the handlers are coroutines of one event loop), is
\* suspended there while the tasks of other users run, and is resumed.
InitConcurrent ==
    /\ AUTHORIZED_USERS = Users
    /\ Registered
    /\ volume = "ok"
    /\ legacy = LegacyAbsent
    /\ metadata_file \in { NoFile, JsonFile(Catalogue(1)) }
    /\ cached_audios_data = load_audio_metadata(metadata_file)

\* /move with a handle and a position within a short store.
ConcurrentMoveArgs ==
    { <<h, Literal(n)>> : h \in FileIds, n \in 1 .. MaxConcurrentStore }

\* Each user has one attachment to send, and sends one text, which is
\* not blank and differs from the authors and names of the catalogue.
AttachmentsOf(u) == { att \in Attachments : (att.type = "voice") <=> (u = 1) }

ConcurrentTexts == { <<"a">> }

\* An update of user u has arrived and the Application creates the task
\* that will handle it.
create_task(u) ==
    /\ tasks[u].at = "none"
    /\ tasks' = [ tasks EXCEPT ![u] = Created ]
    /\ UNCHANGED << AUTHORIZED_USERS, outside, cached_audios_data, metadata_file,
                    user_data, collected_before_add, reply, saved >>

\* reply_text returns: the task of user u is resumed, logs and ends.
resume_task(u) ==
    /\ tasks[u].at = "reply_text"
    /\ tasks' = [ tasks EXCEPT ![u] = NoTask ]
    /\ UNCHANGED << AUTHORIZED_USERS, outside, cached_audios_data, metadata_file,
                    user_data, collected_before_add, reply, saved >>

\* The event loop can run the task of user u.
Ready(u) == tasks[u].at = "created"

\* The event loop runs a task: the handler registered for the update, up
\* to its await.
NextConcurrent ==
    \E u \in Users :
        \/ create_task(u)
        \/ Ready(u) /\ ~InConversation(u) /\ add_audio_command(u)
        \/ Ready(u) /\ \E args \in IdArgs : delete_audio_command(u, args)
        \/ Ready(u) /\ ~InConversation(u)
              /\ \E args \in ConcurrentMoveArgs : move_audio_command(u, args)
        \/ Ready(u) /\ ~InConversation(u)
              /\ \E args \in IdArgs : edit_audio_command(u, args)
        \/ Ready(u) /\ InConversation(u)
              /\ \E att \in AttachmentsOf(u) : handle_audio(u, att)
        \/ Ready(u) /\ InConversation(u) /\ \E text \in ConcurrentTexts :
              /\ handle_text_input(u, text)
              /\ Len(cached_audios_data') <= MaxConcurrentStore
        \/ resume_task(u)

SpecConcurrent == InitConcurrent /\ [][NextConcurrent]_vars

Spec == Init /\ [][Next]_vars

SpecAccess == InitAccess /\ [][NextAccess]_vars

SpecBrowse == InitBrowse /\ [][NextBrowse]_vars

SpecFaulty == InitFaulty /\ [][NextFaulty]_vars

SpecLegacy == InitLegacy /\ [][NextLegacy]_vars

SpecTransport == InitBrowse /\ [][NextTransport]_vars

SpecQuery == InitBrowse /\ [][NextQuery]_vars

SpecSession == Init /\ [][NextSession]_vars

SpecGuard == Init /\ [][NextGuard]_vars

\* ===================================================================
\* Properties
\* ===================================================================

\* The conversation state of a user (None when idle).
St(u) == Get(user_data[u], "state")

Store == cached_audios_data

\* The record an add flow of user u is about to append, with name n.
PendingRecord(u, n) ==
    [ name |-> n,
      author |-> user_data[u]["temp_author_name"],
      file_id |-> user_data[u]["pending_audio_file_id"],
      type |-> user_data[u]["pending_audio_file_type"],
      telegram_user_id |-> u ]

\* The add flow, step by step; Stored(t) is the value kept for a text t.
\*  1. a record is appended only by a text arriving in awaiting_audio_name,
\*     and it is the pending handle, kind and author with that text as name;
\*  2. awaiting_audio_name is entered only from awaiting_author_name, by a
\*     text that is not blank, which becomes the pending author;
\*  3. awaiting_author_name is entered only from awaiting_audio_for_add, by
\*     an attachment, whose handle and kind become the pending ones;
\*  4. between these steps the pending handle, kind and author stay;
\*  5. a text that is not blank arriving in awaiting_audio_name appends
\*     exactly that one record.
AddFlowStep(Stored(_)) ==
    /\ Len(Store') > Len(Store) =>
          \E u \in Users, text \in Texts :
              /\ St(u) = "awaiting_audio_name"
              /\ handle_text_input(u, text)
              /\ Store' = Append(Store, PendingRecord(u, Stored(text)))
    /\ \A u \in Users :
          (St(u)' = "awaiting_audio_name" /\ St(u) # "awaiting_audio_name") =>
              /\ St(u) = "awaiting_author_name"
              /\ \E text \in Texts :
                    /\ Strip(text) # <<>>
                    /\ handle_text_input(u, text)
                    /\ user_data'[u]["temp_author_name"] = Stored(text)
    /\ \A u \in Users :
          (St(u)' = "awaiting_author_name" /\ St(u) # "awaiting_author_name") =>
              /\ St(u) = "awaiting_audio_for_add"
              /\ \E att \in Attachments :
                    /\ handle_audio(u, att)
                    /\ user_data'[u]["pending_audio_file_id"] = att.file_id
                    /\ user_data'[u]["pending_audio_file_type"] = att.type
    /\ \A u \in Users :
          (St(u)' = St(u) /\ St(u) \in {"awaiting_author_name", "awaiting_audio_name"}) =>
              \A k \in {"pending_audio_file_id", "pending_audio_file_type",
                        "temp_author_name"} :
                  /\ (k \in DOMAIN user_data'[u]) = (k \in DOMAIN user_data[u])
                  /\ k \in DOMAIN user_data[u] => user_data'[u][k] = user_data[u][k]
    /\ \A u \in Users, text \in Texts :
          (St(u) = "awaiting_audio_name" /\ Strip(text) # <<>>
             /\ handle_text_input(u, text)) =>
              Store' = Append(Store, PendingRecord(u, Stored(text)))

AsTyped(t) == t

\* C1 as stated: the appended record carries the author text A and the
\* name text N exactly as the user sent them.
C1_AddFlowAsTyped == [][AddFlowStep(AsTyped)]_vars

\* C1 (amended): a record is appended only when a text arrives while the
\* sender is in awaiting_audio_name, a state entered only after an
\* attachment was captured and then a non-blank author text accepted; a
\* completed flow (attachment H, text A, text N) appends exactly one record
\* with handle H, author A.strip() and name N.strip(); a text arriving
\* earlier appends nothing.
C1_AddFlow == [][AddFlowStep(Strip)]_vars

\* An add flow has just completed with a padded name text: the record
\* appended has kind, handle, author and the stripped name.
C1_Witness ==
    /\ reply.kind = "Saved"
    /\ Store # <<>>
    /\ Store[Len(Store)].name = <<"b">>
    /\ Store[Len(Store)].author = <<"a">>

\* ---------------------------------------------------- store operations

\* Who the access guard lets through, stated independently of the code.
Allowed(u) == AUTHORIZED_USERS = {} \/ u \in AUTHORIZED_USERS

HasHandle(h) == \E i \in 1 .. Len(Store) : Store[i].file_id = h

\* s without its i-th element (1-based).
Without(s, i) == [ k \in 1 .. Len(s) - 1 |-> IF k < i THEN s[k] ELSE s[k + 1] ]

\* C2: the size of the store is the number of completed add flows minus
\* the number of delete commands that reported success; stated per step:
\* a step changes the size by +1 if it completes an add flow, by -1 if it
\* is a delete that reports success, and not at all otherwise.
C2_SizeAccounting ==
    [][ Len(Store') = Len(Store)
                        + (IF reply'.kind = "Saved" THEN 1 ELSE 0)
                        - (IF reply'.kind = "Deleted" THEN 1 ELSE 0) ]_vars

\* C3: no two records of the store have the same file_id.
C3_UniqueHandles ==
    \A i, j \in 1 .. Len(Store) : i # j => Store[i].file_id # Store[j].file_id

\* C4: /move h p with h in the store and 1 <= p <= len leaves a record
\* with handle h at position p, and the rest of the store is what it was
\* without that record, in the same order.
C4_Move ==
    [][ \A u \in Users, h \in FileIds, p \in 1 .. Len(Store) :
          (Allowed(u) /\ HasHandle(h) /\ move_audio_command(u, <<h, Literal(p)>>)) =>
              /\ Len(Store') = Len(Store)
              /\ \E i \in 1 .. Len(Store) :
                    /\ Store[i].file_id = h
                    /\ Store'[p] = Store[i]
                    /\ Without(Store', p) = Without(Store, i) ]_vars

\* A move has just been done in a store of three different records.
C4_Witness ==
    /\ reply.kind = "Moved"
    /\ Len(Store) = 3
    /\ \A i, j \in 1 .. 3 : i # j => Store[i] # Store[j]

C6_DeleteNotFound ==
    [][ \A u \in Users, h \in FileIds :
          (Allowed(u) /\ ~HasHandle(h) /\ delete_audio_command(u, <<h>>)) =>
              /\ Store' = Store
              /\ metadata_file' = metadata_file
              /\ saved' = FALSE
              /\ reply' = [ user |-> u, kind |-> "DeleteNotFound" ] ]_vars

\* A delete of an absent handle has just been refused on a non-empty store.
C6_Witness ==
    /\ reply.kind = "DeleteNotFound"
    /\ Store # <<>>

\* ------------------------------------------------------------ access guard

Outsider(u) == AUTHORIZED_USERS # {} /\ u \notin AUTHORIZED_USERS

NothingChanges ==
    /\ Store' = Store
    /\ metadata_file' = metadata_file
    /\ user_data' = user_data
    /\ saved' = FALSE

\* C7: with a non-empty allow-list, an update from a user outside it (the
\* handler answers its sender, so reply'.user is who sent the update)
\* changes neither the store nor any conversation state or pending entry;
\* /add, /delete, /move and /edit and attachments are answered with a denial.
C7_OutsiderIsInert ==
    [][ \A u \in Users : (Outsider(u) /\ reply'.user = u) =>
          /\ ( \/ add_audio_command(u)
               \/ \E args \in IdArgs : delete_audio_command(u, args)
               \/ \E args \in MoveArgs : move_audio_command(u, args)
               \/ \E args \in IdArgs : edit_audio_command(u, args) ) =>
                 (NothingChanges /\ reply'.kind = "Unauthorized")
          /\ (\E att \in Attachments : handle_audio(u, att)) =>
                 (NothingChanges /\ reply'.kind = "UnauthorizedAudio")
          /\ (\E text \in Texts : handle_text_input(u, text)) =>
                 NothingChanges ]_vars

\* An outsider's command has just been denied while the store holds a record.
C7_Witness ==
    /\ reply.kind = "Unauthorized"
    /\ Outsider(reply.user)
    /\ Store # <<>>

\* ---------------------------------------------------------------- edit flow

InEdit(u) == St(u) \in {"awaiting_new_author", "awaiting_new_name"}

\* C8: an edit flow (/edit H accepted, new author, new name) keeps H as
\* its target; its last step changes the author and name of one record
\* with handle H and nothing else: length, order, the record's handle, kind
\* and owner and every other record stay.  When no record with handle H is
\* left at that step, the answer is "not found" and the store and the file
\* stay as they are.
C8_Edit ==
    [][ \A u \in Users :
          /\ \A h \in FileIds :
                (Allowed(u) /\ HasHandle(h) /\ edit_audio_command(u, <<h>>)) =>
                    /\ St(u)' = "awaiting_new_author"
                    /\ user_data'[u]["editing_audio_id"] = h
                    /\ Store' = Store
          /\ (InEdit(u) /\ InEdit(u)' /\ Get(user_data'[u], "editing_audio_id")
                                            # Get(user_data[u], "editing_audio_id")) =>
                \E h \in FileIds : edit_audio_command(u, <<h>>)
          /\ \A text \in Texts :
                (St(u) = "awaiting_new_author" /\ Strip(text) # <<>>
                   /\ handle_text_input(u, text)) =>
                    /\ St(u)' = "awaiting_new_name"
                    /\ user_data'[u]["temp_new_author"] = Strip(text)
                    /\ Store' = Store
          /\ \A text \in Texts :
                (St(u) = "awaiting_new_name" /\ Strip(text) # <<>>
                   /\ handle_text_input(u, text)) =>
                    LET H == user_data[u]["editing_audio_id"]
                    IN  IF HasHandle(H)
                        THEN /\ Len(Store') = Len(Store)
                             /\ \E i \in 1 .. Len(Store) :
                                   /\ Store[i].file_id = H
                                   /\ \A k \in 1 .. Len(Store) :
                                         k # i => Store'[k] = Store[k]
                                   /\ Store'[i] =
                                        [ Store[i] EXCEPT
                                            !.author = user_data[u]["temp_new_author"],
                                            !.name = Strip(text) ]
                             /\ reply' = [ user |-> u, kind |-> "Updated" ]
                        ELSE /\ Store' = Store
                             /\ metadata_file' = metadata_file
                             /\ saved' = FALSE
                             /\ reply' = [ user |-> u, kind |-> "UpdateNotFound" ] ]_vars

\* An edit has just been applied to the first record of a store that also
\* holds a record with another handle.
C8_Witness ==
    /\ reply.kind = "Updated"
    /\ Len(Store) >= 2
    /\ Store[1].file_id # Store[2].file_id
    /\ Store[1].author = <<"b">>
    /\ Store[1].name = <<"b">>
    /\ Store[2].author = <<"a">>

\* ------------------------------------------------------- /add and /cancel

AddData == {"pending_audio_file_id", "pending_audio_file_type", "temp_author_name"}
EditData == {"editing_audio_id", "temp_new_author"}

\* C9: an authorized /add puts the user in awaiting_audio_for_add whatever
\* the state was, and nothing collected before it is used afterwards: the
\* step that appends a record or applies an edit reads no user_data key
\* that was written before the user's latest /add and not since.
C9_AddDiscards ==
    [][ \A u \in Users :
          /\ (Allowed(u) /\ reply'.user = u /\ add_audio_command(u)) =>
                (St(u)' = "awaiting_audio_for_add" /\ Store' = Store)
          /\ (Store' # Store /\ reply'.user = u
                /\ \E text \in Texts : handle_text_input(u, text)) =>
                    collected_before_add[u]
                        \cap (IF St(u) = "awaiting_audio_name" THEN AddData ELSE EditData)
                      = {} ]_vars

\* A record has just been edited by a user whose user_data still holds
\* what an add flow abandoned for a later /add had collected.
C9_Witness ==
    /\ reply.kind = "Updated"
    /\ collected_before_add[reply.user] # {}

\* C10: a cancel command leaves its sender idle with no pending entry.
C10_CancelResets ==
    reply.kind = "NoHandler" => DOMAIN user_data[reply.user] = {}

\* ------------------------------------------------------------ inline query

\* t occurs in s as a run of consecutive characters.
C11_IsSubstring(t, s) ==
    \E i \in 1 .. Len(s) + 1 : \E j \in 0 .. Len(s) : SubSeq(s, i, j) = t

C11_Hit(r, q) ==
    \/ C11_IsSubstring(Lower(q), Lower(r.name))
    \/ C11_IsSubstring(Lower(q), Lower(r.author))

\* sub is what is left of full after dropping some of its elements.
RECURSIVE C11_InOrderOf(_, _)
C11_InOrderOf(sub, full) ==
    IF sub = << >> THEN TRUE
    ELSE IF full = << >> THEN FALSE
    ELSE IF Head(sub) = Head(full) THEN C11_InOrderOf(Tail(sub), Tail(full))
    ELSE C11_InOrderOf(sub, Tail(full))

\* C11: an inline query q keeps only records whose lower-cased name or
\* lower-cased author contains q.lower(), in store order, the first match
\* of the store first; the empty query keeps every record in store order;
\* the same query asked again of an unchanged store keeps the same records
\* in the same order.
C11_QueryMatching ==
    [][ answer'.serial # answer.serial =>
          LET q == answer'.query
              kept == answer'.filtered
          IN  /\ \A k \in 1 .. Len(kept) : C11_Hit(kept[k], q)
              /\ C11_InOrderOf(kept, Store)
              /\ (\E i \in 1 .. Len(Store) : C11_Hit(Store[i], q)) =>
                    /\ kept # << >>
                    /\ kept[1] = Store[CHOOSE i \in 1 .. Len(Store) :
                                         /\ C11_Hit(Store[i], q)
                                         /\ \A j \in 1 .. i - 1 : ~C11_Hit(Store[j], q)]
              /\ q = << >> => kept = Store
              /\ (answer.serial > 0 /\ answer.query = q /\ answer.store = Store) =>
                    kept = answer.filtered ]_vars

\* The second query, in capitals, has kept one record of a store of more
\* than ten, and not the first of the store.
C11_Witness ==
    /\ answer.serial = 2
    /\ answer.query = <<"T", "1", "0">>
    /\ Len(Store) > 10
    /\ answer.store = Store
    /\ answer.filtered = << Store[10] >>

\* C12: an inline answer never holds more than 10 items, however many
\* records match, and the title of each item is "{author} - {name}" of the
\* record it stands for.
C12_AtMostTen ==
    answer.serial > 0 =>
        /\ Len(answer.results) <= InlineCap
        /\ \A k \in 1 .. Len(answer.results) :
              \E i \in 1 .. Len(answer.store) :
                  /\ answer.results[k].file_id = answer.store[i].file_id
                  /\ answer.results[k].title =
                        answer.store[i].author \o <<" ", "-", " ">> \o answer.store[i].name

\* ---------------------------------------------------------------- paging

\* ceil(n / k) for n >= 1.
C13_Ceil(n, k) == CHOOSE m \in 1 .. n : m * k >= n /\ (m - 1) * k < n

\* The slices of pages p .. last of the store, one after the other.
RECURSIVE C13_Concat(_, _)
C13_Concat(p, last) ==
    IF p > last THEN << >>
    ELSE AudiosToSend(Store, p) \o C13_Concat(p + 1, last)

\* C13: for a store of N >= 1 records, the slices of pages
\* 0 .. ceil(N / AUDIOS_PER_PAGE) - 1, concatenated in page order, are the
\* store, and none of them is empty; total_pages as the code computes it
\* is that number of pages.
C13_PagesPartition ==
    Store # << >> =>
        LET pages == C13_Ceil(Len(Store), AUDIOS_PER_PAGE)
        IN  /\ C13_Concat(0, pages - 1) = Store
            /\ \A p \in 0 .. pages - 1 : AudiosToSend(Store, p) # << >>
            /\ TotalPages(Len(Store)) = pages

\* The third page of a store of eleven records has been rendered: it
\* holds the eleventh record alone.
C13_Witness ==
    /\ Len(Store) = 11
    /\ render.outcome = "page"
    /\ render.page = 2
    /\ render.audios = << Store[11] >>

\* A step in which send_paginated_audios sent a page.
PageSent ==
    /\ chat_messages' # chat_messages
    /\ render'.outcome = "page"

\* C14: in every page rendered of a non-empty store there is a "previous"
\* button iff the page index is above 0 and a "next" button iff it is
\* below totalPages - 1, and the page index each button carries lies in
\* [0, totalPages - 1] for the store as it is at that time.
C14_Affordances ==
    [][ PageSent =>
          LET total == C13_Ceil(Len(Store'), AUDIOS_PER_PAGE)
              keyboard == render'.keyboard
              Has(b) == \E k \in 1 .. Len(keyboard) : keyboard[k].button = b
          IN  /\ Has("previous") <=> render'.page > 0
              /\ Has("next") <=> render'.page < total - 1
              /\ \A k \in 1 .. Len(keyboard) :
                    \E n \in 0 .. total - 1 :
                        keyboard[k].callback_data = CallbackData(n) ]_vars

\* The middle page of a store of eleven records has been rendered, with
\* both buttons.
C14_Witness ==
    /\ Len(Store) = 11
    /\ render.outcome = "page"
    /\ render.page = 1
    /\ Len(render.keyboard) = 2

C15_Clamp(x, lo, hi) == IF x < lo THEN lo ELSE IF x > hi THEN hi ELSE x

\* C15: a request for any integer page index on a non-empty store renders
\* page clamp(index, 0, totalPages - 1) of the store as it is then, and
\* the slice rendered is the non-empty run of records of that page.
C15_PageClamped ==
    [][ (chat_messages' # chat_messages /\ Store' # << >>) =>
          LET total == C13_Ceil(Len(Store'), AUDIOS_PER_PAGE)
              shown == C15_Clamp(render'.requested, 0, total - 1)
              first == shown * AUDIOS_PER_PAGE + 1
          IN  /\ render'.outcome = "page"
              /\ render'.page = shown
              /\ render'.audios # << >>
              /\ first <= Len(Store')
              /\ render'.audios =
                    SubSeq(Store', first,
                           IF first + AUDIOS_PER_PAGE - 1 < Len(Store')
                           THEN first + AUDIOS_PER_PAGE - 1 ELSE Len(Store')) ]_vars

\* The button of a third page has been pressed when the store holds five
\* records: the first and only page was rendered.
C15_Witness ==
    /\ Len(Store) = 5
    /\ render.outcome = "page"
    /\ render.requested = 2
    /\ render.page = 0
    /\ Len(render.audios) = 5

\* The message ids context.chat_data[c] keeps.
C16_Tracked(c) ==
    (IF "last_pagination_message_id" \in DOMAIN chat_data[c]
     THEN { chat_data[c]["last_pagination_message_id"] } ELSE {})
    \cup
    (IF "last_audio_message_ids" \in DOMAIN chat_data[c]
     THEN { chat_data[c]["last_audio_message_ids"][k] :
              k \in 1 .. Len(chat_data[c]["last_audio_message_ids"]) }
     ELSE {})

\* C16: in each chat, after any browse commands, page turns and store
\* changes, the messages of earlier renders are gone and chat_data holds
\* exactly the ids of the messages of the latest render, so the bot's
\* browse messages in the chat are never more than those of one page.
C16_OnlyLatestRenderLive ==
    \A c \in Chats :
        /\ chat_messages[c].live = C16_Tracked(c)
        /\ render.outcome # "none" /\ render.chat = c =>
              chat_messages[c].live = { render.sent[k].message_id :
                                          k \in 1 .. Len(render.sent) }
        /\ Cardinality(chat_messages[c].live) <= 2 * AUDIOS_PER_PAGE + 1

\* ----------------------------------------------------------- persistence

\* C17: while every write succeeds, between handlers the list a load of
\* the file returns is the in-memory store, same records in the same
\* order; so a load after a successful add, delete, move or edit returns
\* the store with that change applied.
C17_DurableEqualsMemory ==
    /\ load_audio_metadata(metadata_file) = Store
    /\ saved => (metadata_file.exists /\ metadata_file.data = Store)

\* A delete has just been written and has left records in the store.
C17_Witness ==
    /\ reply.kind = "Deleted"
    /\ saved
    /\ Store # << >>
    /\ metadata_file.data = Store

\* Replies that tell the user a change was made.
Acknowledged == reply.kind \in { "Saved", "Deleted", "Moved", "Updated" }

\* C18: a change is acknowledged as made only if its write to the file
\* succeeded: after an acknowledgement the file holds the store; when the
\* write fails the user is told so and store and file do not differ
\* unnoticed.
C18_AckOnlyIfWritten ==
    (Acknowledged /\ saved) =>
        /\ metadata_file.exists
        /\ ~metadata_file.corrupt
        /\ metadata_file.data = Store

\* main.py: a load from an absent or corrupt file has left the empty
\* store, and a handler whose write failed has gone on to its reply.
C19_MainSurvives ==
    /\ (reply.kind = "Startup" /\ (~metadata_file.exists \/ metadata_file.corrupt)) =>
          Store = << >>
    /\ saved => Acknowledged

\* Perduny_bot.py: once the module-level load has run on an absent or
\* corrupt file the process runs with the empty list, and no write of
\* the file ends the process.
C19_LegacySurvives ==
    /\ legacy.process # "absent" => legacy.process \in { "starting", "running" }
    /\ ( /\ legacy.process = "running"
         /\ (~legacy.db_file.exists \/ legacy.db_file.corrupt)
         /\ reply.kind = "Startup" ) => legacy.voice_db = << >>

\* C19: loading from a missing or corrupt file yields an empty in-memory
\* store and the process goes on running; a failing save does not end
\* the process.
C19_LoadAndSaveSurvive == C19_MainSurvives /\ C19_LegacySurvives

\* ------------------------------------------------------ transport failures

\* The latest render was one of a non-empty store in which the call
\* render.fault names raised.
FailedDuringPage ==
    /\ render.outcome \in { "page", "raised" }
    /\ render.hit

\* C20: when one send or delete raises during the render of a page (the
\* text message of an item, its audio message, or the deletion of an old
\* message), the render still sends two messages for every other item of
\* the page, sends the pagination message, and writes the ids of the
\* messages it sent to chat_data.
C20_FailureSkipsOneItem ==
    FailedDuringPage =>
        /\ render.outcome = "page"
        /\ \A i \in 1 .. Len(render.audios) :
              (render.fault.op = "delete" \/ render.fault.at # i) =>
                  /\ \E k \in 1 .. Len(render.sent) :
                        render.sent[k].item = i /\ render.sent[k].kind = "text"
                  /\ \E k \in 1 .. Len(render.sent) :
                        render.sent[k].item = i /\ render.sent[k].kind \in {"voice", "audio"}
        /\ \E k \in 1 .. Len(render.sent) : render.sent[k].kind = "pagination"
        /\ C16_Tracked(render.chat) =
              { render.sent[k].message_id : k \in 1 .. Len(render.sent) }

\* ------------------------------------------------------------ authorization

\* A step in which user u sent one of the gated commands.
GatedCommand(u) ==
    \/ add_audio_command(u)
    \/ \E args \in IdArgs : delete_audio_command(u, args)
    \/ \E args \in MoveArgs : move_audio_command(u, args)
    \/ \E args \in IdArgs : edit_audio_command(u, args)

C24_Captured(u) ==
    \A att \in Attachments :
        (St(u) = "awaiting_audio_for_add" /\ handle_audio(u, att)) =>
            /\ St(u)' = "awaiting_author_name"
            /\ Get(user_data'[u], "pending_audio_file_id") = att.file_id
            /\ Get(user_data'[u], "pending_audio_file_type") = att.type
            /\ Store' = Store

\* User u sent an attachment in any other state: nothing of the user's
\* conversation and nothing of the store changed.
C24_Ignored(u) ==
    (St(u) # "awaiting_audio_for_add" /\ \E att \in Attachments : handle_audio(u, att)) =>
        /\ user_data'[u] = user_data[u]
        /\ Store' = Store

\* User u sent a text while awaiting an attachment: the state is kept and
\* the user is prompted again.
C24_Reprompted(u) ==
    (St(u) = "awaiting_audio_for_add" /\ \E text \in Texts : handle_text_input(u, text)) =>
        /\ St(u)' = St(u)
        /\ reply'.kind # "NoReply"

\* C24: an attachment from an authorized user who awaits one stores its
\* handle and kind as pending and moves the user on to the author step; an
\* attachment in any other state changes neither the conversation state,
\* the pending entry nor the store; a text message sent while an
\* attachment is awaited leaves the state as it is and is answered with a
\* reprompt.
C24_AttachmentIntake ==
    [][ \A u \in Users : (Allowed(u) /\ reply'.user = u) =>
          /\ C24_Captured(u)
          /\ C24_Ignored(u)
          /\ C24_Reprompted(u) ]_vars

\* C25: while the author is awaited, a text that is not empty once its
\* surrounding whitespace is removed becomes the pending author and the user
\* moves on to the name step; an empty or blank text is answered with a
\* reprompt and changes neither the conversation state, the pending entry
\* nor the store.
C25_AuthorStep ==
    [][ \A u \in Users : (reply'.user = u /\ St(u) = "awaiting_author_name") =>
          \A text \in Texts : handle_text_input(u, text) =>
              /\ Store' = Store
              /\ IF Strip(text) # << >>
                 THEN /\ Get(user_data'[u], "temp_author_name") = Strip(text)
                      /\ St(u)' = "awaiting_audio_name"
                 ELSE /\ reply'.kind = "AskAuthorAgain"
                      /\ user_data'[u] = user_data[u] ]_vars

C25_Witness ==
    /\ reply.kind = "AskAuthorAgain"
    /\ St(reply.user) = "awaiting_author_name"
    /\ Get(user_data[reply.user], "pending_audio_file_id") # None

\* What user u has collected in the steps before the final one.
C26_Collected(u) ==
    [ k \in (AddKeys \cup EditKeys) \ {"state"} |-> Get(user_data[u], k) ]

\* C26: when the text of the final step of a flow (the name of a new
\* record, the new name of an edited one) is empty, the store is not
\* changed, the user stays at that step and what the earlier steps
\* collected is still there, so that the text can be entered again.
C26_EmptyFinalTextKeepsFlow ==
    [][ \A u \in Users :
          (reply'.user = u /\ St(u) \in { "awaiting_audio_name", "awaiting_new_name" }) =>
              \A text \in Texts : (Strip(text) = << >> /\ handle_text_input(u, text)) =>
                  /\ Store' = Store
                  /\ St(u)' = St(u)
                  /\ C26_Collected(u)' = C26_Collected(u) ]_vars

\* ------------------------------------------------- /move keeps the records

\* How many times record r occurs in list data.
C28_Occurrences(data, r) == Cardinality({ i \in 1..Len(data) : data[i] = r })

\* List b holds the records of list a, each as many times, in some order.
C28_IsPermutation(a, b) ==
    /\ Len(a) = Len(b)
    /\ \A i \in 1..Len(a) : C28_Occurrences(b, a[i]) = C28_Occurrences(a, a[i])

\* C28: /move never changes which records the store holds. Whatever its
\* outcome, the store after it is a permutation of the store before it, of
\* the same length, and in every outcome but success the store is exactly
\* as it was. (Stated by contraposition: a step that breaks either part is
\* not a step of move_audio_command.)
C28_MoveKeepsRecords ==
    [][ \A u \in Users :
          ( /\ reply'.user = u
            /\ \/ ~C28_IsPermutation(Store, Store')
               \/ (reply'.kind # "Moved" /\ Store' # Store) )
          => ~(\E args \in MoveArgs : move_audio_command(u, args)) ]_vars

C28_Witness ==
    /\ reply.kind = "Moved"
    /\ Len(Store) = 3
    /\ Store[1] # Store[2]

\* ------------------------------------------ state and pending data agree

\* Key k of user u's user_data holds a value the completion tests accept.
C27_IsSet(u, k) ==
    IF k \in { "temp_author_name", "temp_new_author" }
    THEN TruthyText(user_data[u], k)
    ELSE TruthyId(user_data[u], k)

\* The keys each step relies on.
C27_Needs(state) ==
    CASE state = "awaiting_author_name" ->
             { "pending_audio_file_id", "pending_audio_file_type" }
      [] state = "awaiting_audio_name" ->
             { "pending_audio_file_id", "pending_audio_file_type", "temp_author_name" }
      [] state = "awaiting_new_author" -> { "editing_audio_id" }
      [] state = "awaiting_new_name" -> { "editing_audio_id", "temp_new_author" }
      [] OTHER -> {}

C27_Consistent == \A u \in Users : \A k \in C27_Needs(St(u)) : C27_IsSet(u, k)

\* The "missing" notice of a completing step is sent only for a text that
\* is empty once stripped.
C27_RetryOnlyForEmptyText ==
    \A u \in Users :
        (reply'.user = u /\ reply'.kind \in { "AddRetry", "EditRetry" }) =>
            \A text \in Texts : handle_text_input(u, text) => Strip(text) = << >>

\* C27: in every reachable state each user's conversation state and
\* pending data agree: awaiting the author implies the pending handle and
\* kind are set, awaiting the name implies handle, kind and author are set,
\* awaiting the new author implies the edit target is set, awaiting the new
\* name implies the edit target and the new author are set; hence the
\* failure branch of a completing step is taken only for an empty final
\* text.
C27_StateAndPendingAgree ==
    /\ []C27_Consistent
    /\ [][C27_RetryOnlyForEmptyText]_vars

C27_Witness ==
    /\ reply.kind = "AddRetry"
    /\ Get(user_data[reply.user], "editing_audio_id") # None

\* ------------------------------------------------- concurrent handlers

\* The stores that result from applying to the store as it is now the
\* mutation of each handler, for user u and the input given.
C21_Deleted(args) == IF args = << >> THEN Store ELSE KeepOthers(Store, args[1])

C21_Moved(args) ==
    IF /\ Len(args) = 2
       /\ IsIntLiteral(args[2])
       /\ FirstIndex(Store, args[1]) # -1
       /\ IntOf(args[2]) \in 1 .. Len(Store)
    THEN PopThenInsert(Store, FirstIndex(Store, args[1]), IntOf(args[2]) - 1)
    ELSE Store

C21_Completed(u, text) ==
    LET name == Strip(text)
    IN  CASE St(u) = "awaiting_audio_name" /\ AddIsComplete(name, user_data[u]) ->
                 Append(Store, PendingRecord(u, name))
          [] St(u) = "awaiting_new_name" /\ EditIsComplete(name, user_data[u]) ->
                 UpdateFirst(Store, user_data[u]["editing_audio_id"],
                             user_data[u]["temp_new_author"], name)
          [] OTHER -> Store

\* The task of user u has run its handler in this step.
C21_Ran(u) == tasks[u].at = "created" /\ tasks'[u].at # "created"

\* C21: when the handlers of different users run concurrently and
\* interleave at their awaits, the mutations of the store are atomic with
\* respect to each other: every step that completes a handler leaves, in
\* memory and in the file, the store obtained by applying that handler's
\* mutation to the store as the step found it, whatever the tasks of the
\* other users did since the task was created, and no other step changes
\* the store or the file. So the store is at all times the result of the
\* mutations applied one after another, and no update is lost.
C21_MutationsAreSerial ==
    [][ /\ (\A u \in Users : ~C21_Ran(u)) =>
              (Store' = Store /\ metadata_file' = metadata_file)
        /\ \A u \in Users : C21_Ran(u) =>
              /\ IF reply'.kind \in { "Saved", "Deleted", "Moved", "Updated" }
                 THEN metadata_file' = JsonFile(Store')
                 ELSE metadata_file' = metadata_file /\ Store' = Store
              /\ \A args \in IdArgs :
                    delete_audio_command(u, args) => Store' = C21_Deleted(args)
              /\ \A args \in ConcurrentMoveArgs :
                    move_audio_command(u, args) => Store' = C21_Moved(args)
              /\ \A text \in ConcurrentTexts :
                    handle_text_input(u, text) => Store' = C21_Completed(u, text)
              /\ ( \/ add_audio_command(u)
                   \/ \E args \in IdArgs : edit_audio_command(u, args)
                   \/ \E att \in AttachmentsOf(u) : handle_audio(u, att) )
                  => Store' = Store ]_vars

C21_Witness ==
    /\ \A u \in Users : tasks[u].at = "reply_text"
    /\ reply.kind = "Deleted"
    /\ Len(Store) = 1
    /\ Store[1].telegram_user_id # reply.user

====
